---- MODULE Spec2Model ----
(***************************************************************************)
(* A model of networkx/readwrite/graphml.py: the GraphML type table, the   *)
(* two writers (GraphMLWriter, GraphMLWriterLxml) and the reader           *)
(* (GraphMLReader).  The interpreter is Python 3 (unicode = str,           *)
(* long = int, dicts keep insertion order).                                *)
(***************************************************************************)
EXTENDS Integers, Sequences, FiniteSets, TLC

(***************************************************************************)
(* Bounds of the model.                                                    *)
(***************************************************************************)
\* edges of an input graph, edge elements of an input document
MaxEdges == 2
\* attribute entries of an input graph, <data> elements of an input document
MaxAttrs == 2

\* a local name: Let(v, LAMBDA x : e) is e with x naming the value v
Let(v, F(_)) == F(v)

(***************************************************************************)
(* Python values.  A value is a record: t is the runtime type, n the       *)
(* numeric payload (bool: 0/1, int: the integer, float: the value in       *)
(* tenths) and s the text payload of a str.                                *)
(***************************************************************************)
BoolV(b) == [t |-> "bool", n |-> IF b THEN 1 ELSE 0, s |-> ""]
IntV(i) == [t |-> "int", n |-> i, s |-> ""]
FloatV(tenths) == [t |-> "float", n |-> tenths, s |-> ""]
StrV(x) == [t |-> "str", n |-> 0, s |-> x]
\* the empty list [], a value whose type the GraphML type table does not list
ListV == [t |-> "list", n |-> 0, s |-> ""]
\* Python's None
NoneV == [t |-> "NoneType", n |-> 0, s |-> ""]
\* a raised exception, carried as a value through the pure operators
ErrV(kind) == [t |-> "!raise", n |-> 0, s |-> kind]
IsErr(v) == v.t = "!raise"

\* type(v)
type(v) == v.t

\* an absent XML attribute (Element.get returns None) or an absent text
NoneStr == "<None>"

\* Python truthiness of a str-or-None: None and "" are false
Truthy(x) == x # NoneStr /\ x # ""

Digit == <<"0", "1", "2", "3", "4", "5", "6", "7", "8", "9">>
IntText(i) == Digit[i + 1]
\* repr of a float given in tenths: 25 is "2.5", 10 is "1.0"
FloatText(tenths) == IntText(tenths \div 10) \o "." \o IntText(tenths % 10)

\* networkx.utils.make_str: str(x) for a non-text value, the text itself else
make_str(v) ==
    CASE v.t = "bool" -> IF v.n = 1 THEN "True" ELSE "False"
      [] v.t = "int" -> IntText(v.n)
      [] v.t = "float" -> FloatText(v.n)
      [] v.t = "str" -> v.s
      [] v.t = "list" -> "[]"
      [] v.t = "NoneType" -> "None"

\* int(text): the decimal integers, anything else raises ValueError
PyInt(text) ==
    IF text = NoneStr THEN ErrV("TypeError")
    ELSE IF \E i \in 0..9 : IntText(i) = text
         THEN IntV(CHOOSE i \in 0..9 : IntText(i) = text)
         ELSE ErrV("ValueError")

\* float(text): decimal integers and decimal fractions
PyFloat(text) ==
    IF text = NoneStr THEN ErrV("TypeError")
    ELSE IF \E i \in 0..9 : IntText(i) = text
         THEN FloatV(10 * (CHOOSE i \in 0..9 : IntText(i) = text))
         ELSE IF \E f \in 0..99 : FloatText(f) = text
              THEN FloatV(CHOOSE f \in 0..99 : FloatText(f) = text)
              ELSE ErrV("ValueError")

\* str(text)
PyStr(text) == IF text = NoneStr THEN StrV("None") ELSE StrV(text)

\* bool(text): the truth value of the object, "False" is a non-empty string
PyBool(text) == BoolV(Truthy(text))

\* str.lower on the tokens of the model
lower(text) ==
    CASE text \in {"True", "TRUE", "tRuE"} -> "true"
      [] text \in {"False", "FALSE"} -> "false"
      [] text = "X" -> "x"
      [] OTHER -> text

(***************************************************************************)
(* class GraphML                                                           *)
(***************************************************************************)
unicode == "str"
long == "int"

types ==
    << <<"int", "integer">>,
       <<"str", "yfiles">>, <<"str", "string">>, <<unicode, "string">>,
       <<"int", "int">>, <<long, "long">>,
       <<"float", "float">>, <<"float", "double">>,
       <<"bool", "boolean">> >>

\* the last pair of a list with a given first component, as dict(pairs) keeps
LastIndex(seq, k, col) ==
    CHOOSE i \in DOMAIN seq :
        /\ seq[i][col] = k
        /\ \A j \in DOMAIN seq : seq[j][col] = k => j <= i

\* xml_type = dict(types): Python type -> GraphML type name
xml_type_keys == {types[i][1] : i \in DOMAIN types}
xml_type(t) == types[LastIndex(types, t, 1)][2]

\* python_type = dict(reversed(a) for a in types): GraphML name -> Python type
python_type_keys == {types[i][2] : i \in DOMAIN types}
python_type(x) == types[LastIndex(types, x, 2)][1]

\* convert_bool, on the text keys (the integer keys 0 and 1 are never looked
\* up with a text)
convert_bool_keys == {"true", "false", "0", "1"}
convert_bool(k) == BoolV(k \in {"true", "1"})

\* calling a Python type of the table on a text: data_type(text)
CallType(pytype, text) ==
    CASE pytype = "int" -> PyInt(text)
      [] pytype = "float" -> PyFloat(text)
      [] pytype = "str" -> PyStr(text)
      [] pytype = "bool" -> PyBool(text)

(***************************************************************************)
(* Attribute bags.  A Python dict is the sequence of its entries           *)
(* [k |-> name, v |-> value] in insertion order, names distinct.           *)
(***************************************************************************)
BagHas(b, k) == \E i \in DOMAIN b : b[i].k = k
\* dict.get(k): the value, or None
BagGet(b, k) ==
    IF BagHas(b, k) THEN b[CHOOSE i \in DOMAIN b : b[i].k = k].v ELSE NoneV
\* d[k] = v
BagPut(b, k, v) ==
    IF BagHas(b, k)
    THEN [i \in DOMAIN b |-> IF b[i].k = k THEN [k |-> k, v |-> v] ELSE b[i]]
    ELSE Append(b, [k |-> k, v |-> v])
\* d.update(c)
RECURSIVE BagUpdate(_, _)
BagUpdate(b, c) ==
    IF c = <<>> THEN b
    ELSE BagUpdate(BagPut(b, Head(c).k, Head(c).v), Tail(c))

(***************************************************************************)
(* The host graph classes (networkx.Graph, DiGraph, MultiGraph,            *)
(* MultiDiGraph), as far as the codec uses them.  A graph is a record:     *)
(* directed, multigraph, graph (the scalar graph attributes), node_default *)
(* and edge_default (the two reserved graph attributes, an absent one is   *)
(* the empty dict), nodes (records [id, data]) and edges (records          *)
(* [u, v, key, data], key = NoneV in a simple graph), both in iteration    *)
(* order.                                                                  *)
(***************************************************************************)
EmptyGraph(directed, multi) ==
    [directed |-> directed, multigraph |-> multi, graph |-> <<>>,
     node_default |-> <<>>, edge_default |-> <<>>,
     nodes |-> <<>>, edges |-> <<>>]

\* == of two dict keys: numbers compare by value across bool, int and float
IsNum(v) == v.t \in {"bool", "int", "float"}
Tenths(v) == IF v.t = "float" THEN v.n ELSE 10 * v.n
PyEq(a, b) == IF IsNum(a) /\ IsNum(b) THEN Tenths(a) = Tenths(b) ELSE a = b

has_node(G, n) == \E i \in DOMAIN G.nodes : G.nodes[i].id = n

\* G.add_node(n, **data)
add_node(G, n, data) ==
    IF has_node(G, n)
    THEN [G EXCEPT !.nodes = [i \in DOMAIN G.nodes |->
              IF G.nodes[i].id = n
              THEN [id |-> n, data |-> BagUpdate(G.nodes[i].data, data)]
              ELSE G.nodes[i]]]
    ELSE [G EXCEPT !.nodes = Append(G.nodes, [id |-> n, data |-> data])]

\* the edge e joins u and v
Joins(G, e, u, v) ==
    \/ e.u = u /\ e.v = v
    \/ ~G.directed /\ e.u = v /\ e.v = u

\* G.has_edge(u, v)
has_edge(G, u, v) == \E i \in DOMAIN G.edges : Joins(G, G.edges[i], u, v)

\* the keys of the edges between u and v: G.adj[u][v]
keydict(G, u, v) ==
    {G.edges[i].key : i \in {j \in DOMAIN G.edges : Joins(G, G.edges[j], u, v)}}

\* MultiGraph.new_edge_key: len(keydict), incremented while it is in use
new_edge_key(G, u, v) ==
    IF ~has_edge(G, u, v) THEN IntV(0)
    ELSE Let(keydict(G, u, v), LAMBDA kd :
         Let({k \in Cardinality(kd)..(2 * Cardinality(kd)) :
                 \A x \in kd : ~PyEq(x, IntV(k))}, LAMBDA free :
         IntV(CHOOSE k \in free : \A j \in free : k <= j)))

\* MultiGraph.add_edges_from([(u, v, key, dd)])
add_edges_from(G, u, v, key, dd) ==
    Let(IF has_node(G, u) THEN G ELSE add_node(G, u, <<>>), LAMBDA G1 :
    Let(IF has_node(G1, v) THEN G1 ELSE add_node(G1, v, <<>>), LAMBDA G2 :
    Let(IF key = NoneV THEN new_edge_key(G2, u, v) ELSE key, LAMBDA k :
    Let({i \in DOMAIN G2.edges :
            Joins(G2, G2.edges[i], u, v) /\ PyEq(G2.edges[i].key, k)},
        LAMBDA old :
        IF old # {}
        THEN [G2 EXCEPT !.edges = [i \in DOMAIN G2.edges |->
                 IF i \in old
                 THEN [G2.edges[i] EXCEPT !.data = BagUpdate(@, dd)]
                 ELSE G2.edges[i]]]
        ELSE [G2 EXCEPT !.edges =
                 Append(G2.edges,
                        [u |-> u, v |-> v, key |-> k, data |-> dd])]))))

\* nx.Graph(G), nx.DiGraph(G) of a multigraph G: the same nodes and graph
\* attributes, the edges without their keys, parallel edges merged
RECURSIVE SimpleEdges(_, _, _)
SimpleEdges(G, es, acc) ==
    IF es = <<>> THEN acc
    ELSE LET e == Head(es)
             old == {i \in DOMAIN acc : Joins(G, acc[i], e.u, e.v)}
         IN  SimpleEdges(G, Tail(es),
                 IF old # {}
                 THEN [i \in DOMAIN acc |->
                          IF i \in old
                          THEN [acc[i] EXCEPT !.data = BagUpdate(@, e.data)]
                          ELSE acc[i]]
                 ELSE Append(acc, [u |-> e.u, v |-> e.v, key |-> NoneV,
                                   data |-> e.data]))
ToSimple(G) ==
    [G EXCEPT !.multigraph = FALSE, !.edges = SimpleEdges(G, G.edges, <<>>)]

\* nx.set_edge_attributes(G, values, name) on a simple graph: values is a dict
\* from <<u, v>> to the value; a pair that is no edge of G is skipped
RECURSIVE set_edge_attributes(_, _, _)
set_edge_attributes(G, values, name) ==
    IF values = <<>> THEN G
    ELSE LET x == Head(values)
         IN  set_edge_attributes(
                 [G EXCEPT !.edges = [i \in DOMAIN G.edges |->
                     IF Joins(G, G.edges[i], x.k[1], x.k[2])
                     THEN [G.edges[i] EXCEPT !.data = BagPut(@, name, x.v)]
                     ELSE G.edges[i]]],
                 Tail(values), name)

(***************************************************************************)
(* The document, as the XML layer hands it to the reader and as the        *)
(* writers build it.                                                       *)
(*   key element:   [id, for, name, type, default]; type is NoneStr when   *)
(*                  attr.type is missing; default is <<>> without a        *)
(*                  <default> child and <<text>> with one                  *)
(*   graph element: [edgedefault, id, hyperedge, data, nodes, edges]       *)
(*   node element:  [id, data]                                             *)
(*   edge element:  [source, target, id, directed, data]                   *)
(*   data element:  [key, text, sub]; sub says that the element has child  *)
(*                  elements (none of them a yFiles node or edge shape)    *)
(***************************************************************************)

(***************************************************************************)
(* class GraphMLReader                                                     *)
(***************************************************************************)
\* __init__: the reader's own state
ReaderInit == [multigraph |-> FALSE, edge_ids |-> <<>>]

\* self.node_type, str by default: node ids are texts
node_type(text) == text

\* self.edge_key_type, int by default
edge_key_type(text) == PyInt(text)

\* find_graphml_keys: the table id -> [name, type, for] and the table
\* id -> default text, both as lists of entries in document order
RECURSIVE find_graphml_keys(_, _, _)
find_graphml_keys(ks, graphml_keys, graphml_key_defaults) ==
    IF ks = <<>>
    THEN [err |-> "", keys |-> graphml_keys, defaults |-> graphml_key_defaults]
    ELSE LET k == Head(ks)
             attr_type == IF k.type = NoneStr THEN "string" ELSE k.type
         IN  IF k.name = NoneStr
             THEN [err |-> "NetworkXError: Unknown key for id",
                   keys |-> graphml_keys, defaults |-> graphml_key_defaults]
             ELSE IF attr_type \notin python_type_keys
             THEN [err |-> "KeyError: attr.type",
                   keys |-> graphml_keys, defaults |-> graphml_key_defaults]
             ELSE find_graphml_keys(Tail(ks),
                      BagPut(graphml_keys, k.id,
                             [name |-> k.name, type |-> python_type(attr_type),
                              for |-> k.for]),
                      IF k.default # <<>>
                      THEN BagPut(graphml_key_defaults, k.id, k.default[1])
                      ELSE graphml_key_defaults)

\* the boolean branch without text.lower()
decode_bool_exact(text) ==
    IF text \in convert_bool_keys
    THEN convert_bool(text)
    ELSE ErrV("KeyError: convert_bool")

\* the boolean branch of decode_data_elements:
\* self.convert_bool[text.lower()], a KeyError for a text that is no key
decode_bool(text) ==
    IF lower(text) \in convert_bool_keys
    THEN convert_bool(lower(text))
    ELSE ErrV("KeyError: convert_bool")

\* decode_data_elements: the attributes of the <data> children of an element
RECURSIVE decode_data_elements(_, _, _)
decode_data_elements(graphml_keys, ds, data) ==
    IF ds = <<>> THEN [err |-> "", data |-> data]
    ELSE LET data_element == Head(ds)
             key == data_element.key
         IN  IF ~BagHas(graphml_keys, key)
             THEN [err |-> "NetworkXError: Bad GraphML data: no key",
                   data |-> data]
             ELSE
             LET data_name == BagGet(graphml_keys, key).name
                 data_type == BagGet(graphml_keys, key).type
                 text == data_element.text
             IN  IF text # NoneStr /\ ~data_element.sub
                 THEN Let(IF data_type = "bool"
                          THEN decode_bool(text)
                          ELSE CallType(data_type, text), LAMBDA v :
                          IF IsErr(v)
                          THEN [err |-> v.s, data |-> data]
                          ELSE decode_data_elements(graphml_keys,
                                   Tail(ds), BagPut(data, data_name, v)))
                 ELSE \* child elements that are no yFiles shape, or no text:
                      \* no attribute
                      decode_data_elements(graphml_keys, Tail(ds), data)

\* add_node
reader_add_node(G, node_xml, graphml_keys) ==
    LET node_id == node_type(node_xml.id)
    IN  Let(decode_data_elements(graphml_keys, node_xml.data, <<>>),
            LAMBDA d :
            IF d.err # "" THEN [err |-> d.err, G |-> G]
            ELSE [err |-> "", G |-> add_node(G, node_id, d.data)])

\* the key of an edge with data['key'] ahead of the id attribute
EdgeKey_data_first(edge_element, data) ==
    IF BagHas(data, "key") THEN BagGet(data, "key")
    ELSE IF Truthy(edge_element.id)
    THEN Let(edge_key_type(edge_element.id), LAMBDA k :
             IF IsErr(k) THEN StrV(edge_element.id) ELSE k)
    ELSE NoneV

\* the key add_edge gives an edge: the id attribute through edge_key_type
\* (the text itself when the conversion raises ValueError), else data['key']
EdgeKey(edge_element, data) ==
    IF Truthy(edge_element.id)
    THEN Let(edge_key_type(edge_element.id), LAMBDA k :
             IF IsErr(k) THEN StrV(edge_element.id) ELSE k)
    ELSE BagGet(data, "key")

\* the check of add_edge without its second test
direction_error_first_only(G, directed) ==
    IF G.directed /\ directed = "false"
    THEN "NetworkXError: directed=false edge found in directed graph."
    ELSE ""

\* the check of add_edge for mixed directed and undirected edges: the
\* message of the error it raises, "" when it raises none
direction_error(G, directed) ==
    IF G.directed /\ directed = "false"
    THEN "NetworkXError: directed=false edge found in directed graph."
    ELSE IF ~G.directed /\ directed = "true"
    THEN "NetworkXError: directed=true edge found in undirected graph."
    ELSE ""

\* add_edge; self is the reader's state
reader_add_edge(self, G, edge_element, graphml_keys) ==
    IF direction_error(G, edge_element.directed) # ""
    THEN [err |-> direction_error(G, edge_element.directed),
          G |-> G, self |-> self]
    ELSE
        LET source == node_type(edge_element.source)
            target == node_type(edge_element.target)
        IN  Let(decode_data_elements(graphml_keys, edge_element.data, <<>>),
                LAMBDA d :
            IF d.err # "" THEN [err |-> d.err, G |-> G, self |-> self]
            ELSE
            LET edge_id == EdgeKey(edge_element, d.data)
                self1 == IF Truthy(edge_element.id)
                         THEN [self EXCEPT !.edge_ids =
                                  BagPut(@, <<source, target>>,
                                         StrV(edge_element.id))]
                         ELSE self
            IN  [err |-> "",
                 G |-> add_edges_from(G, source, target, edge_id, d.data),
                 self |-> [self1 EXCEPT !.multigraph =
                              @ \/ has_edge(G, source, target)]])

\* make_graph, the loop over the <node> children
RECURSIVE add_nodes_loop(_, _, _)
add_nodes_loop(G, ns, graphml_keys) ==
    IF ns = <<>> THEN [err |-> "", G |-> G]
    ELSE Let(reader_add_node(G, Head(ns), graphml_keys), LAMBDA r :
             IF r.err # "" THEN r
             ELSE add_nodes_loop(r.G, Tail(ns), graphml_keys))

\* make_graph, the loop over the <edge> children
RECURSIVE add_edges_loop(_, _, _, _)
add_edges_loop(self, G, es, graphml_keys) ==
    IF es = <<>> THEN [err |-> "", G |-> G, self |-> self]
    ELSE Let(reader_add_edge(self, G, Head(es), graphml_keys), LAMBDA r :
             IF r.err # "" THEN r
             ELSE add_edges_loop(r.self, r.G, Tail(es), graphml_keys))

\* the loop over the defaults that files every default under node_default,
\* whatever the scope of its key
RECURSIVE graph_defaults_any_scope(_, _, _)
graph_defaults_any_scope(G, ds, graphml_keys) ==
    IF ds = <<>> THEN [err |-> "", G |-> G]
    ELSE LET key_id == Head(ds).k
             value == Head(ds).v
             name == BagGet(graphml_keys, key_id).name
         IN  Let(CallType(BagGet(graphml_keys, key_id).type, value),
                 LAMBDA v :
             IF IsErr(v) THEN [err |-> v.s, G |-> G]
             ELSE graph_defaults_any_scope(
                      [G EXCEPT !.node_default = BagPut(@, name, v)],
                      Tail(ds), graphml_keys))

\* make_graph, the loop over the defaults: G.graph['node_default'] and
\* G.graph['edge_default'] get python_type(value) of every defaulted key
RECURSIVE graph_defaults(_, _, _)
graph_defaults(G, ds, graphml_keys) ==
    IF ds = <<>> THEN [err |-> "", G |-> G]
    ELSE LET key_id == Head(ds).k
             value == Head(ds).v
             key_for == BagGet(graphml_keys, key_id).for
             name == BagGet(graphml_keys, key_id).name
         IN  Let(CallType(BagGet(graphml_keys, key_id).type, value),
                 LAMBDA v :
             IF IsErr(v) THEN [err |-> v.s, G |-> G]
             ELSE graph_defaults(
                      IF key_for = "node"
                      THEN [G EXCEPT !.node_default = BagPut(@, name, v)]
                      ELSE IF key_for = "edge"
                      THEN [G EXCEPT !.edge_default = BagPut(@, name, v)]
                      ELSE G,
                      Tail(ds), graphml_keys))

\* the end of make_graph without the call of set_edge_attributes
downgrade_without_ids(self, G) ==
    IF ~self.multigraph THEN ToSimple(G) ELSE G

\* the end of make_graph: the switch to Graph or DiGraph if no parallel edges
\* were found, with the edge ids as the edge attribute 'id'
downgrade(self, G) ==
    IF ~self.multigraph
    THEN set_edge_attributes(ToSimple(G), self.edge_ids, "id")
    ELSE G

\* make_graph; self is the reader's state, the result holds the graph (when
\* err is empty) and the reader's state afterwards
make_graph(self, graph_xml, graphml_keys, defaults) ==
    LET G0 == EmptyGraph(graph_xml.edgedefault = "directed", TRUE)
    IN  Let(graph_defaults(G0, defaults, graphml_keys), LAMBDA r1 :
        IF r1.err # "" THEN [err |-> r1.err, G |-> G0, self |-> self]
        ELSE IF graph_xml.hyperedge
        THEN [err |-> "NetworkXError: GraphML reader doesn't support hyperedges",
              G |-> G0, self |-> self]
        ELSE
        Let(add_nodes_loop(r1.G, graph_xml.nodes, graphml_keys), LAMBDA r2 :
        IF r2.err # "" THEN [err |-> r2.err, G |-> G0, self |-> self]
        ELSE
        Let(add_edges_loop(self, r2.G, graph_xml.edges, graphml_keys),
            LAMBDA r3 :
        IF r3.err # "" THEN [err |-> r3.err, G |-> G0, self |-> r3.self]
        ELSE
        Let(decode_data_elements(graphml_keys, graph_xml.data, <<>>),
            LAMBDA d :
        IF d.err # ""
        THEN [err |-> d.err, G |-> G0, self |-> r3.self]
        ELSE [err |-> "",
              G |-> downgrade(r3.self,
                              [r3.G EXCEPT !.graph = BagUpdate(@, d.data)]),
              self |-> r3.self]))))

(***************************************************************************)
(* class GraphMLWriter.  A writer object is a record:                      *)
(*   kind                 "xml" (GraphMLWriter) or "lxml" (GraphMLWriterLxml)*)
(*   infer_numeric_types  the constructor's flag                           *)
(*   keys                 dict (name, attr_type, scope) -> key id          *)
(*   attribute_types      dict (name, scope) -> set of Python types        *)
(*   attributes           dict element -> list of [k, v, scope, default];  *)
(*                        an element is named by its place in the document *)
(*                        <<graph number, "graph" | "node" | "edge", i>>   *)
(*   xml                  the document under construction: its <key>       *)
(*                        elements and its <graph> elements, in document   *)
(*                        order (GraphMLWriterLxml: the list of keys)      *)
(*   out                  GraphMLWriterLxml: what was written to the file  *)
(*   log                  GraphMLWriterLxml: the <key> and <data> elements *)
(*                        written, in the order of writing                 *)
(***************************************************************************)
EmptyDoc == [keys |-> <<>>, graphs |-> <<>>]

\* GraphMLWriter.__init__ and GraphMLWriterLxml.__init__ without a graph
WriterInit(kind, infer) ==
    [kind |-> kind, infer_numeric_types |-> infer, keys |-> <<>>,
     attribute_types |-> <<>>, attributes |-> <<>>, xml |-> EmptyDoc,
     out |-> EmptyDoc, log |-> <<>>]

\* self.attribute_types[(name, scope)], a defaultdict(set)
observed(self, name, scope) ==
    IF BagHas(self.attribute_types, <<name, scope>>)
    THEN BagGet(self.attribute_types, <<name, scope>>)
    ELSE {}

\* self.attribute_types[(name, scope)].add(t)
observe(self, name, scope, t) ==
    [self EXCEPT !.attribute_types =
        BagPut(@, <<name, scope>>, observed(self, name, scope) \cup {t})]

\* attr_type with the float test ahead of the str tests
attr_type_float_first(self, name, scope, value) ==
    IF self.infer_numeric_types
    THEN Let(observed(self, name, scope), LAMBDA ts :
             IF Cardinality(ts) > 1
             THEN IF "float" \in ts THEN "float"
                  ELSE IF "str" \in ts THEN "str"
                  ELSE IF unicode \in ts THEN unicode
                  ELSE IF long \in ts THEN long
                  ELSE "int"
             ELSE IF ts = {} THEN "IndexError"
             ELSE CHOOSE t \in ts : TRUE)
    ELSE type(value)

\* attr_type: the Python type whose GraphML type the data is declared with;
\* list(types)[0] of an empty set raises IndexError
attr_type(self, name, scope, value) ==
    IF self.infer_numeric_types
    THEN Let(observed(self, name, scope), LAMBDA ts :
             IF Cardinality(ts) > 1
             THEN IF "str" \in ts THEN "str"
                  ELSE IF unicode \in ts THEN unicode
                  ELSE IF "float" \in ts THEN "float"
                  ELSE IF long \in ts THEN long
                  ELSE "int"
             ELSE IF ts = {} THEN "IndexError"
             ELSE CHOOSE t \in ts : TRUE)
    ELSE type(value)

\* the <key> element get_key creates
key_element(new_id, name, attr_type_name, scope, default) ==
    [id |-> new_id, for |-> scope, name |-> name, type |-> attr_type_name,
     default |-> IF default # NoneV THEN <<make_str(default)>> ELSE <<>>]

\* get_key numbering the keys of each scope on their own
get_key_per_scope(self, name, attr_type_name, scope, default) ==
    LET keys_key == <<name, attr_type_name, scope>>
    IN  IF BagHas(self.keys, keys_key)
        THEN [self |-> self, id |-> BagGet(self.keys, keys_key)]
        ELSE LET new_id == "d" \o IntText(Cardinality(
                               {i \in DOMAIN self.keys :
                                   self.keys[i].k[3] = scope}))
             IN  [self |-> [self EXCEPT
                              !.keys = BagPut(@, keys_key, new_id),
                              !.xml.keys =
                                  <<key_element(new_id, name, attr_type_name,
                                                scope, default)>> \o @],
                  id |-> new_id]

\* get_key: the id of the key (name, attr_type, scope), registered and
\* declared at the front of self.xml when it is new
get_key(self, name, attr_type_name, scope, default) ==
    LET keys_key == <<name, attr_type_name, scope>>
    IN  IF BagHas(self.keys, keys_key)
        THEN [self |-> self, id |-> BagGet(self.keys, keys_key)]
        ELSE LET new_id == "d" \o IntText(Len(self.keys))
             IN  [self |-> [self EXCEPT
                              !.keys = BagPut(@, keys_key, new_id),
                              !.xml.keys =
                                  <<key_element(new_id, name, attr_type_name,
                                                scope, default)>> \o @],
                  id |-> new_id]

\* add_data: the <data> element of a value, or the error for a type outside
\* the type table
add_data(self, name, element_type, value, scope, default) ==
    IF element_type \notin xml_type_keys
    THEN [err |-> "NetworkXError: GraphML writer does not support data values",
          self |-> self, data_element |-> <<>>]
    ELSE Let(get_key(self, name, xml_type(element_type), scope, default),
             LAMBDA r :
             [err |-> "", self |-> r.self,
              data_element |-> [key |-> r.id, text |-> make_str(value),
                                sub |-> FALSE]])

\* GraphMLWriter.add_attributes: record the types of the attributes of an
\* element and postpone its <data> elements
RECURSIVE add_attributes(_, _, _, _, _)
add_attributes(self, scope, xml_obj, data, default) ==
    IF data = <<>> THEN self
    ELSE LET k == Head(data).k
             v == Head(data).v
             old == IF BagHas(self.attributes, xml_obj)
                    THEN BagGet(self.attributes, xml_obj) ELSE <<>>
             item == [k |-> k, v |-> v, scope |-> scope,
                      default |-> BagGet(default, k)]
         IN  add_attributes(
                 [observe(self, make_str(StrV(k)), scope, type(v))
                     EXCEPT !.attributes =
                         BagPut(@, xml_obj, Append(old, item))],
                 scope, xml_obj, Tail(data), default)

\* add_nodes, for the graph element number gi: the node elements, and the
\* writer after add_attributes of each node
RECURSIVE add_nodes(_, _, _, _, _)
add_nodes(self, G, gi, i, elements) ==
    IF i > Len(G.nodes) THEN [self |-> self, elements |-> elements]
    ELSE add_nodes(
             add_attributes(self, "node", <<gi, "node", i>>, G.nodes[i].data,
                            G.node_default),
             G, gi, i + 1,
             Append(elements, [id |-> make_str(StrV(G.nodes[i].id)),
                               data |-> <<>>]))

\* the <edge> element of add_edges: with the key as id in a multigraph
edge_element(G, e) ==
    [source |-> make_str(StrV(e.u)), target |-> make_str(StrV(e.v)),
     id |-> IF G.multigraph THEN make_str(e.key) ELSE NoneStr,
     directed |-> NoneStr, data |-> <<>>]

\* add_edges, for the graph element number gi
RECURSIVE add_edges(_, _, _, _, _)
add_edges(self, G, gi, i, elements) ==
    IF i > Len(G.edges) THEN [self |-> self, elements |-> elements]
    ELSE add_edges(
             add_attributes(self, "edge", <<gi, "edge", i>>, G.edges[i].data,
                            G.edge_default),
             G, gi, i + 1, Append(elements, edge_element(G, G.edges[i])))

\* the dict without the entry k
RECURSIVE BagDel(_, _)
BagDel(b, k) ==
    IF b = <<>> THEN <<>>
    ELSE IF Head(b).k = k THEN Tail(b) ELSE <<Head(b)>> \o BagDel(Tail(b), k)

\* a <graph> element that never carries the id of the graph
graph_element_anonymous(G) ==
    [edgedefault |-> IF G.directed THEN "directed" ELSE "undirected",
     id |-> NoneStr,
     hyperedge |-> FALSE, data |-> <<>>, nodes |-> <<>>, edges |-> <<>>]

\* the <graph> element of add_graph_element: G.graph.pop('id', None) is its id
graph_element(G) ==
    [edgedefault |-> IF G.directed THEN "directed" ELSE "undirected",
     id |-> IF BagGet(G.graph, "id") = NoneV THEN NoneStr
            ELSE BagGet(G.graph, "id").s,
     hyperedge |-> FALSE, data |-> <<>>, nodes |-> <<>>, edges |-> <<>>]

\* xml_obj.append(data_element), for the element xml_obj of the graphs gs
append_data(gs, xml_obj, data_element) ==
    LET gi == xml_obj[1]
        kind == xml_obj[2]
        i == xml_obj[3]
    IN  CASE kind = "graph" ->
                [gs EXCEPT ![gi].data = Append(@, data_element)]
          [] kind = "node" ->
                [gs EXCEPT ![gi].nodes[i].data = Append(@, data_element)]
          [] kind = "edge" ->
                [gs EXCEPT ![gi].edges[i].data = Append(@, data_element)]

\* self.attributes.items(), flattened: the postponed data of every element
RECURSIVE postponed(_)
postponed(attributes) ==
    IF attributes = <<>> THEN <<>>
    ELSE [i \in DOMAIN Head(attributes).v |->
             [xml_obj |-> Head(attributes).k, item |-> Head(attributes).v[i]]]
         \o postponed(Tail(attributes))

\* the loop of add_graph_element over the postponed data: every element gets
\* its <data> children, typed by attr_type; gs are the graph elements
RECURSIVE add_postponed(_, _, _)
add_postponed(self, gs, todo) ==
    IF todo = <<>> THEN [err |-> "", self |-> self, graphs |-> gs]
    ELSE LET x == Head(todo).item
         IN  Let(add_data(self, make_str(StrV(x.k)),
                          attr_type(self, x.k, x.scope, x.v),
                          StrV(make_str(x.v)), x.scope, x.default),
                 LAMBDA r :
             IF r.err # "" THEN [err |-> r.err, self |-> r.self, graphs |-> gs]
             ELSE add_postponed(r.self,
                      append_data(gs, Head(todo).xml_obj, r.data_element),
                      Tail(todo)))

\* GraphMLWriter.add_graph_element: the writer and the graph afterwards
writer_add_graph_element(self, G) ==
    LET gi == Len(self.xml.graphs) + 1
    IN  Let([G EXCEPT !.graph = BagDel(@, "id")], LAMBDA G1 :
        Let(add_nodes(add_attributes(self, "graph", <<gi, "graph", 0>>,
                                     G1.graph, <<>>),
                      G1, gi, 1, <<>>), LAMBDA n :
        Let(add_edges(n.self, G1, gi, 1, <<>>), LAMBDA e :
        Let(add_postponed(e.self,
                Append(self.xml.graphs,
                       [graph_element(G) EXCEPT !.nodes = n.elements,
                                                !.edges = e.elements]),
                postponed(e.self.attributes)), LAMBDA r :
        [err |-> r.err,
         G |-> G1,
         self |-> [r.self EXCEPT !.xml.graphs =
                      IF r.err # "" THEN SubSeq(r.graphs, 1, gi - 1)
                      ELSE r.graphs]]))))

(***************************************************************************)
(* class GraphMLWriterLxml                                                 *)
(***************************************************************************)
\* the first pass over the attributes data of one element of scope:
\* self.attribute_types[(make_str(k), scope)].add(type(v)), and the first
\* value of every name goes to attributes
RECURSIVE gather(_, _, _, _)
gather(self, scope, data, attributes) ==
    IF data = <<>> THEN [self |-> self, attributes |-> attributes]
    ELSE LET k == Head(data).k
             v == Head(data).v
         IN  gather(observe(self, make_str(StrV(k)), scope, type(v)), scope,
                    Tail(data),
                    IF BagHas(attributes, k) THEN attributes
                    ELSE BagPut(attributes, k, v))

\* the first pass over the nodes
RECURSIVE gather_nodes(_, _, _, _)
gather_nodes(self, G, i, attributes) ==
    IF i > Len(G.nodes) THEN [self |-> self, attributes |-> attributes]
    ELSE Let(gather(self, "node", G.nodes[i].data, attributes), LAMBDA r :
             gather_nodes(r.self, G, i + 1, r.attributes))

\* the first pass over the edges; in a multigraph the edge key is gathered
\* as an attribute named key
RECURSIVE gather_edges(_, _, _, _)
gather_edges(self, G, i, attributes) ==
    IF i > Len(G.edges) THEN [self |-> self, attributes |-> attributes]
    ELSE LET ekey == G.edges[i].key
             s1 == IF G.multigraph
                   THEN observe(self, "key", "edge", type(ekey))
                   ELSE self
             a1 == IF G.multigraph /\ ~BagHas(attributes, "key")
                   THEN BagPut(attributes, "key", ekey)
                   ELSE attributes
         IN  Let(gather(s1, "edge", G.edges[i].data, a1), LAMBDA r :
                 gather_edges(r.self, G, i + 1, r.attributes))

\* the loops "for k, v in attributes.items(): self.get_key(...)" of the first
\* pass; xml_type[...] raises KeyError for a type outside the table
RECURSIVE declare_keys(_, _, _, _)
declare_keys(self, scope, attributes, default) ==
    IF attributes = <<>> THEN [err |-> "", self |-> self]
    ELSE LET k == Head(attributes).k
         IN  Let(attr_type(self, k, scope, Head(attributes).v), LAMBDA t :
             IF t \notin xml_type_keys
             THEN [err |-> "KeyError: xml_type", self |-> self]
             ELSE declare_keys(
                      get_key(self, make_str(StrV(k)), xml_type(t), scope,
                              BagGet(default, k)).self,
                      scope, Tail(attributes), default))

\* GraphMLWriterLxml.add_attributes: the <data> elements of one element
RECURSIVE lxml_add_attributes(_, _, _, _, _)
lxml_add_attributes(self, scope, data, default, elements) ==
    IF data = <<>> THEN [err |-> "", self |-> self, elements |-> elements]
    ELSE LET k == Head(data).k
             v == Head(data).v
         IN  Let(add_data(self, make_str(StrV(k)),
                          attr_type(self, make_str(StrV(k)), scope, v),
                          StrV(make_str(v)), scope, BagGet(default, k)),
                 LAMBDA r :
             IF r.err # ""
             THEN [err |-> r.err, self |-> r.self, elements |-> elements]
             ELSE lxml_add_attributes(r.self, scope, Tail(data), default,
                                      Append(elements, r.data_element)))

\* the log entries of writing data elements
DataLog(elements) ==
    [i \in DOMAIN elements |-> <<"data", elements[i].key>>]

\* add_nodes with the incremental writer: every node element is written with
\* its <data> children; g is the graph element as written so far
RECURSIVE lxml_add_nodes(_, _, _, _)
lxml_add_nodes(self, G, i, g) ==
    IF i > Len(G.nodes) THEN [err |-> "", self |-> self, g |-> g]
    ELSE Let(lxml_add_attributes(self, "node", G.nodes[i].data,
                                 G.node_default, <<>>), LAMBDA r :
             IF r.err # "" THEN [err |-> r.err, self |-> r.self, g |-> g]
             ELSE lxml_add_nodes(
                      [r.self EXCEPT !.log = @ \o DataLog(r.elements)],
                      G, i + 1,
                      [g EXCEPT !.nodes =
                          Append(@, [id |-> make_str(StrV(G.nodes[i].id)),
                                     data |-> r.elements])]))

\* add_edges with the incremental writer
RECURSIVE lxml_add_edges(_, _, _, _)
lxml_add_edges(self, G, i, g) ==
    IF i > Len(G.edges) THEN [err |-> "", self |-> self, g |-> g]
    ELSE Let(lxml_add_attributes(self, "edge", G.edges[i].data,
                                 G.edge_default, <<>>), LAMBDA r :
             IF r.err # "" THEN [err |-> r.err, self |-> r.self, g |-> g]
             ELSE lxml_add_edges(
                      [r.self EXCEPT !.log = @ \o DataLog(r.elements)],
                      G, i + 1,
                      [g EXCEPT !.edges =
                          Append(@, [edge_element(G, G.edges[i])
                                        EXCEPT !.data = r.elements])]))

\* the first pass of GraphMLWriterLxml.add_graph_element: the types of all
\* attributes are gathered and a key is declared for every attribute name
lxml_first_pass(self, G) ==
    Let(declare_keys(gather(self, "graph", G.graph, <<>>).self, "graph",
                     G.graph, <<>>), LAMBDA k1 :
        IF k1.err # "" THEN k1
        ELSE
        Let(gather_nodes(k1.self, G, 1, <<>>), LAMBDA g2 :
        Let(declare_keys(g2.self, "node", g2.attributes, G.node_default),
            LAMBDA k2 :
        IF k2.err # "" THEN k2
        ELSE
        Let(gather_edges(k2.self, G, 1, <<>>), LAMBDA g3 :
        declare_keys(g3.self, "edge", g3.attributes, G.edge_default)))))

\* "for key in self.xml: self._xml.write(key)"
write_keys(self) ==
    [self EXCEPT
        !.out.keys = @ \o self.xml.keys,
        !.log = @ \o [i \in DOMAIN self.xml.keys |->
                         <<"key", self.xml.keys[i].id>>]]

\* the second pass: the graph element with its data, nodes and edges is
\* written; what was written before an error stays written
lxml_second_pass(self, G, ge) ==
    Let(lxml_add_attributes(self, "graph", G.graph, <<>>, <<>>), LAMBDA a :
    Let([ge EXCEPT !.data = a.elements], LAMBDA g1 :
    Let([a.self EXCEPT !.log = @ \o DataLog(a.elements)], LAMBDA s1 :
        IF a.err # "" THEN [err |-> a.err, self |-> s1, g |-> g1]
        ELSE Let(lxml_add_nodes(s1, G, 1, g1), LAMBDA n :
                 IF n.err # "" THEN n
                 ELSE lxml_add_edges(n.self, G, 1, n.g)))))

\* GraphMLWriterLxml.add_graph_element: the writer and the graph afterwards
lxml_add_graph_element(self, G) ==
    Let([G EXCEPT !.graph = BagDel(@, "id")], LAMBDA G1 :
    Let(lxml_first_pass(self, G1), LAMBDA p :
        IF p.err # "" THEN [err |-> p.err, G |-> G1, self |-> p.self]
        ELSE Let(lxml_second_pass(write_keys(p.self), G1, graph_element(G)),
                 LAMBDA r :
                 [err |-> r.err, G |-> G1,
                  self |-> [r.self EXCEPT !.out.graphs = Append(@, r.g)]])))

\* the document a reader finds in the written file: the text of an element
\* written with an empty text is None once parsed
ParseData(ds) ==
    [i \in DOMAIN ds |->
        [ds[i] EXCEPT !.text = IF @ = "" THEN NoneStr ELSE @]]
ParseDoc(doc) ==
    [keys |-> [i \in DOMAIN doc.keys |->
                  [doc.keys[i] EXCEPT !.default =
                      IF @ = <<"">> THEN <<NoneStr>> ELSE @]],
     graphs |-> [i \in DOMAIN doc.graphs |->
                  [doc.graphs[i] EXCEPT
                      !.data = ParseData(@),
                      !.nodes = [j \in DOMAIN @ |->
                                    [@[j] EXCEPT !.data = ParseData(@)]],
                      !.edges = [j \in DOMAIN @ |->
                                    [@[j] EXCEPT !.data = ParseData(@)]]]]]

(***************************************************************************)
(* State.                                                                  *)
(***************************************************************************)
VARIABLES
    G,        \* the graph handed to the writer
    W,        \* the writer object
    xml,      \* the reader's self.xml: the parsed document
    tables,   \* the reader's (keys, defaults) of find_graphml_keys
    reader,   \* the reader object: multigraph, edge_ids
    glist,    \* the graphs the reader has yielded so far
    pc,       \* where the run is
    err,      \* the exception that ended the run, "" when none
    ret       \* the last call of attr_type: its arguments and its result

vars == <<G, W, xml, tables, reader, glist, pc, err, ret>>

NoTables == [err |-> "", keys |-> <<>>, defaults |-> <<>>]
NoCall == [name |-> "", scope |-> "", value |-> NoneV, result |-> ""]

(***************************************************************************)
(* The reader's steps: read_graphml creates a reader, the generator        *)
(* __call__ finds the keys, then makes one graph per <graph> element, and  *)
(* read_graphml returns the first of them.                                 *)
(***************************************************************************)
\* GraphMLReader.__call__ up to its loop: find_graphml_keys
ReaderCall ==
    /\ pc = "read"
    /\ \E r \in {find_graphml_keys(xml.keys, <<>>, <<>>)} :
           /\ tables' = r
           /\ err' = r.err
           /\ pc' = IF r.err # "" THEN "failed" ELSE "graphs"
    /\ UNCHANGED <<G, W, xml, reader, glist, ret>>

\* one round of the loop of __call__: yield self.make_graph(g, keys, defaults)
MakeGraph ==
    /\ pc = "graphs"
    /\ Len(glist) < Len(xml.graphs)
    /\ \E r \in {make_graph(reader, xml.graphs[Len(glist) + 1],
                           tables.keys, tables.defaults)} :
           /\ reader' = r.self
           /\ err' = r.err
           /\ IF r.err # ""
              THEN pc' = "failed" /\ glist' = glist
              ELSE pc' = pc /\ glist' = Append(glist, r.G)
    /\ UNCHANGED <<G, W, xml, tables, ret>>

\* read_graphml after list(reader(...)): glist[0], or the error when the
\* document has no <graph> (the retry with the namespace header finds the
\* same elements in a parsed tree)
ReadReturn ==
    /\ pc = "graphs"
    /\ Len(glist) = Len(xml.graphs)
    /\ IF glist = <<>>
       THEN /\ pc' = "failed"
            /\ err' = "NetworkXError: file not successfully read as graphml"
       ELSE /\ pc' = "returned"
            /\ err' = err
    /\ UNCHANGED <<G, W, xml, tables, reader, glist, ret>>

(***************************************************************************)
(* The documents handed to the reader.                                     *)
(***************************************************************************)
\* the <key> declarations of the input documents
DocKeys ==
    << [id |-> "d0", for |-> "edge", name |-> "key", type |-> "int",
        default |-> <<>>],
       [id |-> "d1", for |-> "all", name |-> "flag", type |-> "boolean",
        default |-> <<>>],
       [id |-> "d2", for |-> "all", name |-> "n", type |-> "long",
        default |-> <<>>],
       [id |-> "d3", for |-> "all", name |-> "w", type |-> "double",
        default |-> <<>>],
       [id |-> "d4", for |-> "all", name |-> "s", type |-> NoneStr,
        default |-> <<>>] >>

Data(key, text) == [key |-> key, text |-> text, sub |-> FALSE]

\* sequences over S of length at most n
SeqUpTo(S, n) == UNION {[1..k -> S] : k \in 0..n}

EdgeDefaults == {"directed", "undirected", NoneStr}
\* edge ids are NMTOKENs, unique in a document
EdgeIds == {"0", "1", "e"}

NodeElements == << [id |-> "a", data |-> <<>>], [id |-> "b", data |-> <<>>] >>

GraphOfEdges(ed, es) ==
    [keys |-> DocKeys,
     graphs |-> << [edgedefault |-> ed, id |-> NoneStr, hyperedge |-> FALSE,
                    data |-> <<>>, nodes |-> NodeElements, edges |-> es] >>]

\* documents about edge direction: up to n edge elements with a directed
\* attribute
DirEdges ==
    [source : {"a", "b"}, target : {"a", "b"}, id : {NoneStr},
     directed : {NoneStr, "true", "false"}, data : {<<>>}]
DirDocs(doc, n) ==
    \E ed \in EdgeDefaults, es \in SeqUpTo(DirEdges, n) :
        doc = GraphOfEdges(ed, es)

\* documents about edge keys: up to n edge elements between a and b,
\* with or without an id and with or without a data element named key
KeyEdges ==
    [source : {"a", "b"}, target : {"a", "b"},
     id : EdgeIds \cup {NoneStr}, directed : {NoneStr},
     data : {<<>>, <<Data("d0", "0")>>, <<Data("d0", "1")>>}]
KeyDocs(doc, n) ==
    \E ed \in {"directed", "undirected"},
       es \in {s \in SeqUpTo({e \in KeyEdges : e.source # e.target}, n) :
                 \A i, j \in DOMAIN s :
                     i # j /\ s[i].id # NoneStr => s[i].id # s[j].id} :
        doc = GraphOfEdges(ed, es)

\* documents about data: up to n <data> elements on a graph, a node and an
\* edge
DataElements ==
    {Data("d1", t) : t \in {"true", "false", "TRUE", "False", "0", "1", "2",
                            "yes", NoneStr}}
    \cup {Data("d2", "1"), Data("d2", "x"), Data("d3", "2.5"),
          Data("d4", "x"), Data("zz", "1"),
          [key |-> "d1", text |-> "true", sub |-> TRUE]}

\* the data elements of the placement p that go to the element slot
RECURSIVE Placed(_, _)
Placed(p, slot) ==
    IF p = <<>> THEN <<>>
    ELSE IF Head(p)[1] = slot
         THEN <<Head(p)[2]>> \o Placed(Tail(p), slot)
         ELSE Placed(Tail(p), slot)

DataDocs(doc, n) ==
    \E p \in SeqUpTo({"graph", "node", "edge"} \X DataElements, n) :
        doc =
          [keys |-> DocKeys,
           graphs |-> << [edgedefault |-> "undirected", id |-> NoneStr,
                          hyperedge |-> FALSE, data |-> Placed(p, "graph"),
                          nodes |-> << [id |-> "a", data |-> Placed(p, "node")],
                                       [id |-> "b", data |-> <<>>] >>,
                          edges |-> << [source |-> "a", target |-> "b",
                                        id |-> NoneStr, directed |-> NoneStr,
                                        data |-> Placed(p, "edge")] >>] >>]

\* documents about defaults: up to n of the keys flag, n, w and s get a scope
\* and a <default> child; the node a and the edge may carry a <data> child of
\* their own for the key n
DefaultTexts(i) ==
    CASE i = 2 -> {"false", "False", "0", "true", "1"}
      [] i = 3 -> {"1", "x"}
      [] i = 4 -> {"2.5"}
      [] i = 5 -> {"x"}
KeyDefaults ==
    UNION {{<<i, f, t>> : f \in {"node", "edge", "all"}, t \in DefaultTexts(i)} :
              i \in 2..5}
RECURSIVE WithDefaults(_, _)
WithDefaults(ks, p) ==
    IF p = <<>> THEN ks
    ELSE WithDefaults([ks EXCEPT ![Head(p)[1]].for = Head(p)[2],
                                 ![Head(p)[1]].default = <<Head(p)[3]>>],
                      Tail(p))
DefaultDocs(doc, n) ==
    \E p \in SeqUpTo(KeyDefaults, n), own \in SUBSET {"node", "edge"} :
        /\ \A i, j \in DOMAIN p : i < j => p[i][1] < p[j][1]
        /\ doc =
             [keys |-> WithDefaults(DocKeys, p),
              graphs |-> << [edgedefault |-> "undirected", id |-> NoneStr,
                             hyperedge |-> FALSE, data |-> <<>>,
                             nodes |->
                                << [id |-> "a",
                                    data |-> IF "node" \in own
                                             THEN <<Data("d2", "1")>>
                                             ELSE <<>>],
                                   [id |-> "b", data |-> <<>>] >>,
                             edges |->
                                << [source |-> "a", target |-> "b",
                                    id |-> NoneStr, directed |-> NoneStr,
                                    data |-> IF "edge" \in own
                                             THEN <<Data("d2", "1")>>
                                             ELSE <<>>] >>] >>]

\* documents with two <graph> elements, each with up to n edge elements
\* between a and b, with or without an id
GraphEdges ==
    [source : {"a"}, target : {"b"}, id : {NoneStr, "e", "f"},
     directed : {NoneStr}, data : {<<>>}]
    \cup [source : {"b"}, target : {"a"}, id : {NoneStr},
          directed : {NoneStr}, data : {<<>>}]
GraphElement(ed, es) ==
    [edgedefault |-> ed, id |-> NoneStr, hyperedge |-> FALSE, data |-> <<>>,
     nodes |-> NodeElements, edges |-> es]
GraphsDocs(doc, n) ==
    \E ed \in {"directed", "undirected"},
       es \in SeqUpTo(GraphEdges, n), fs \in SeqUpTo(GraphEdges, n) :
        /\ \A i, j \in DOMAIN (es \o fs) :
               i # j /\ (es \o fs)[i].id # NoneStr
                   => (es \o fs)[i].id # (es \o fs)[j].id
        /\ doc = [keys |-> DocKeys,
                  graphs |-> <<GraphElement(ed, es), GraphElement(ed, fs)>>]

\* doc is a document of up to e edge elements (per graph) or a data elements
\* or defaults
Docs(doc, e, a) ==
    DirDocs(doc, e) \/ KeyDocs(doc, e) \/ DataDocs(doc, a)
        \/ DefaultDocs(doc, a) \/ GraphsDocs(doc, e)

\* a reader is handed a document
InitDecode ==
    /\ G = EmptyGraph(FALSE, FALSE)
    /\ W = WriterInit("xml", FALSE)
    /\ Docs(xml, MaxEdges, MaxAttrs)
    /\ tables = NoTables
    /\ reader = ReaderInit
    /\ glist = <<>>
    /\ pc = "read"
    /\ err = ""
    /\ ret = NoCall

NextDecode == ReaderCall \/ MakeGraph \/ ReadReturn

SpecDecode == InitDecode /\ [][NextDecode]_vars

(***************************************************************************)
(* The writers' steps.                                                     *)
(***************************************************************************)
\* GraphMLWriter.add_graph_element(G)
add_graph_element ==
    /\ pc = "write"
    /\ W.kind = "xml"
    /\ \E r \in {writer_add_graph_element(W, G)} :
           /\ W' = r.self
           /\ G' = r.G
           /\ err' = r.err
           /\ pc' = IF r.err # "" THEN "failed" ELSE "written"
    /\ UNCHANGED <<xml, tables, reader, glist, ret>>

\* GraphMLWriterLxml.add_graph_element(G)
add_graph_element_lxml ==
    /\ pc = "write"
    /\ W.kind = "lxml"
    /\ \E r \in {lxml_add_graph_element(W, G)} :
           /\ W' = r.self
           /\ G' = r.G
           /\ err' = r.err
           /\ pc' = IF r.err # "" THEN "failed" ELSE "written"
    /\ UNCHANGED <<xml, tables, reader, glist, ret>>

\* the document of the writer: the tree of GraphMLWriter, the file of
\* GraphMLWriterLxml
Document == IF W.kind = "xml" THEN W.xml ELSE W.out

\* dump, and the written document is handed to a reader
ReadBack ==
    /\ pc = "written"
    /\ xml' = ParseDoc(Document)
    /\ pc' = "read"
    /\ UNCHANGED <<G, W, tables, reader, glist, err, ret>>

(***************************************************************************)
(* The graphs handed to the writers: the nodes a and b, up to MaxEdges     *)
(* edges between them and up to MaxAttrs attribute entries.                *)
(***************************************************************************)
Values == {BoolV(TRUE), IntV(1), FloatV(25), StrV("x"), ListV}

\* the number of edges of es that join u and v
RECURSIVE Between(_, _, _, _)
Between(directed, es, u, v) ==
    IF es = <<>> THEN 0
    ELSE (IF \/ Head(es)[1] = u /\ Head(es)[2] = v
             \/ ~directed /\ Head(es)[1] = v /\ Head(es)[2] = u
          THEN 1 ELSE 0) + Between(directed, Tail(es), u, v)

\* the edge lists of a graph: no parallel edges in a simple graph, the keys
\* 0, 1, ... of MultiGraph.add_edge for the parallel edges of a multigraph
EdgeLists(directed, multi) ==
    {[i \in DOMAIN es |->
         [u |-> es[i][1], v |-> es[i][2],
          key |-> IF multi
                  THEN IntV(Between(directed, SubSeq(es, 1, i - 1),
                                    es[i][1], es[i][2]))
                  ELSE NoneV,
          data |-> <<>>]] :
      es \in {s \in SeqUpTo({<<"a", "b">>, <<"b", "a">>}, MaxEdges) :
                /\ s # <<>> => s[1] = <<"a", "b">>
                /\ ~multi => \A i \in DOMAIN s :
                       Between(directed, s, s[i][1], s[i][2]) = 1}}

\* the places of attribute entries in a graph with n edges, and the entries
Slots(n) ==
    {<<"graph", 0>>, <<"node_default", 0>>, <<"edge_default", 0>>,
     <<"node", 1>>, <<"node", 2>>} \cup {<<"edge", j>> : j \in 1..n}
Entries(n) ==
    {<<s, "w", v>> : s \in Slots(n), v \in Values}
    \cup {<<<<"graph", 0>>, "id", StrV("g")>>}

\* the attribute bag of a place under the placement p
RECURSIVE BagAt(_, _)
BagAt(p, slot) ==
    IF p = <<>> THEN <<>>
    ELSE IF Head(p)[1] = slot
         THEN <<[k |-> Head(p)[2], v |-> Head(p)[3]]>> \o BagAt(Tail(p), slot)
         ELSE BagAt(Tail(p), slot)

\* the places in the order the writers visit them
SlotRank(slot) ==
    CASE slot[1] = "graph" -> 0
      [] slot[1] = "node_default" -> 1
      [] slot[1] = "edge_default" -> 2
      [] slot[1] = "node" -> 2 + slot[2]
      [] slot[1] = "edge" -> 4 + slot[2]

\* up to MaxAttrs entries, no name twice in a place, listed place by place
\* (the order of the entries of one place is the order of its bag)
Placements(n) ==
    {p \in SeqUpTo(Entries(n), MaxAttrs) :
        \A i, j \in DOMAIN p :
            /\ i # j => <<p[i][1], p[i][2]>> # <<p[j][1], p[j][2]>>
            /\ i < j => SlotRank(p[i][1]) <= SlotRank(p[j][1])}

\* the graph with the edges es and the attributes of the placement p
GraphOn(directed, multi, es, p) ==
    [directed |-> directed, multigraph |-> multi,
     graph |-> BagAt(p, <<"graph", 0>>),
     node_default |-> BagAt(p, <<"node_default", 0>>),
     edge_default |-> BagAt(p, <<"edge_default", 0>>),
     nodes |-> << [id |-> "a", data |-> BagAt(p, <<"node", 1>>)],
                  [id |-> "b", data |-> BagAt(p, <<"node", 2>>)] >>,
     edges |-> [j \in DOMAIN es |->
                   [es[j] EXCEPT !.data = BagAt(p, <<"edge", j>>)]]]

\* a writer is constructed and will be handed a graph
Init ==
    /\ \E directed, multi \in BOOLEAN :
           \E es \in EdgeLists(directed, multi) :
               \E p \in Placements(Len(es)) :
                   G = GraphOn(directed, multi, es, p)
    /\ W \in {WriterInit(kind, infer) :
                 kind \in {"xml", "lxml"}, infer \in BOOLEAN}
    /\ xml = EmptyDoc
    /\ tables = NoTables
    /\ reader = ReaderInit
    /\ glist = <<>>
    /\ pc = "write"
    /\ err = ""
    /\ ret = NoCall

Next ==
    \/ add_graph_element
    \/ add_graph_element_lxml
    \/ ReadBack
    \/ ReaderCall
    \/ MakeGraph
    \/ ReadReturn

Spec == Init /\ [][Next]_vars

\* the writers alone: a graph is encoded and the document is not read back
NextEncode == add_graph_element \/ add_graph_element_lxml

SpecEncode == Init /\ [][NextEncode]_vars

(***************************************************************************)
(* Properties of the reader.  They speak of the first <graph> element of   *)
(* the document and of the graph decoded from it.                          *)
(***************************************************************************)
Decoded == Len(glist) >= 1
GraphXml == xml.graphs[1]
DocDirected(g) == g.edgedefault = "directed"

\* two edge elements connect the same pair of nodes: the same ordered pair
\* in a directed graph, the same unordered pair in an undirected one
SameEnds(g, e, f) ==
    \/ e.source = f.source /\ e.target = f.target
    \/ ~DocDirected(g) /\ e.source = f.target /\ e.target = f.source

HasParallel(g) ==
    \E i, j \in DOMAIN g.edges : i < j /\ SameEnds(g, g.edges[i], g.edges[j])

\* the decoded edges between the ends of the edge element e
DecodedBetween(H, e) ==
    {i \in DOMAIN H.edges : Joins(H, H.edges[i], e.source, e.target)}

\* the edge elements with the ends of the edge element e
ElementsBetween(g, e) == {j \in DOMAIN g.edges : SameEnds(g, g.edges[j], e)}

\* C2: every document with two edge elements connecting the same pair of
\* nodes decodes to a multigraph that has one edge, with a key of its own,
\* for each of these edge elements, whatever ids and key data they carry and
\* in whatever order they come.
C2_ParallelEdgesKept ==
    Decoded /\ HasParallel(GraphXml) =>
        /\ glist[1].multigraph
        /\ \A j \in DOMAIN GraphXml.edges :
              Cardinality(DecodedBetween(glist[1], GraphXml.edges[j]))
                  = Cardinality(ElementsBetween(GraphXml, GraphXml.edges[j]))

\* C3: a document without two edge elements on the same endpoint pair decodes
\* to a simple graph, directed as edgedefault says, in which every edge whose
\* element has an id carries that id text as the edge attribute 'id'; a
\* document with a duplicate endpoint pair decodes to a multigraph.
C3_Downgrade ==
    Decoded =>
        /\ glist[1].directed = DocDirected(GraphXml)
        /\ glist[1].multigraph = HasParallel(GraphXml)
        /\ ~HasParallel(GraphXml) =>
              \A j \in DOMAIN GraphXml.edges :
                  LET e == GraphXml.edges[j]
                  IN  /\ Cardinality(DecodedBetween(glist[1], e)) = 1
                      /\ e.id # NoneStr =>
                            \A i \in DecodedBetween(glist[1], e) :
                                BagGet(glist[1].edges[i].data, "id")
                                    = StrV(e.id)

\* C3 happens: a simple graph was returned with an edge that got its id
C3_Witness ==
    /\ Decoded
    /\ ~glist[1].multigraph
    /\ \E j \in DOMAIN GraphXml.edges : GraphXml.edges[j].id = "e"
    /\ \E i \in DOMAIN glist[1].edges :
          BagGet(glist[1].edges[i].data, "id") = StrV("e")

\* the key an id attribute stands for under edge_key_type = int
IdKey(id) ==
    CASE id = "0" -> IntV(0)
      [] id = "1" -> IntV(1)
      [] OTHER -> StrV(id)

\* the edge element has a data element for the key named key ("d0"), with
\* the value DataKey
HasDataKey(e) == \E i \in DOMAIN e.data : e.data[i].key = "d0"
DataKey(e) ==
    LET i == CHOOSE k \in DOMAIN e.data :
                 e.data[k].key = "d0"
                 /\ \A m \in DOMAIN e.data : e.data[m].key = "d0" => m <= k
    IN  IF e.data[i].text = "0" THEN IntV(0) ELSE IntV(1)

Mismatch(g) ==
    \E j \in DOMAIN g.edges :
        \/ g.edgedefault = "directed" /\ g.edges[j].directed = "false"
        \/ g.edgedefault # "directed" /\ g.edges[j].directed = "true"

DirectionErrors ==
    {"NetworkXError: directed=false edge found in directed graph.",
     "NetworkXError: directed=true edge found in undirected graph."}

\* C9: a graph with an edge element whose directed attribute contradicts
\* edgedefault is never decoded and nothing is returned; the direction error
\* is raised for such graphs only.
C9_DirectionMismatch ==
    /\ \A i \in DOMAIN xml.graphs :
          Mismatch(xml.graphs[i]) => Len(glist) < i /\ pc # "returned"
    /\ err \in DirectionErrors =>
          Len(glist) < Len(xml.graphs) /\ Mismatch(xml.graphs[Len(glist) + 1])

\* C9 happens: a decode ended with the direction error
C9_Witness ==
    /\ pc = "failed"
    /\ err = "NetworkXError: directed=true edge found in undirected graph."
    /\ Mismatch(GraphXml)

\* the boolean tokens
TrueTokens == {"true", "TRUE", "True", "1"}
FalseTokens == {"false", "FALSE", "False", "0"}

\* the data elements with text content (and no child element) that refer to
\* the boolean key "d1", whose attribute name is flag
BoolData(ds) ==
    {i \in DOMAIN ds : ds[i].key = "d1" /\ ds[i].text # NoneStr /\ ~ds[i].sub}
BadBool(ds) ==
    \E i \in BoolData(ds) : ds[i].text \notin TrueTokens \cup FalseTokens
\* the value the last of them gives the attribute, None without one
FlagOf(ds) ==
    IF BoolData(ds) = {} THEN NoneV
    ELSE LET i == CHOOSE k \in BoolData(ds) : \A m \in BoolData(ds) : m <= k
         IN  BoolV(ds[i].text \in TrueTokens)

\* the data elements of each element of the graph g, with the attributes
\* decoded for them in H
Carriers(g, H) ==
    {<<g.data, H.graph>>}
    \cup {<<g.nodes[i].data, H.nodes[i].data>> : i \in DOMAIN g.nodes}
    \cup {<<g.edges[i].data, H.edges[i].data>> :
             i \in DOMAIN g.edges \cap DOMAIN H.edges}

\* C10: boolean data decodes true and 1 to true and false and 0 to false,
\* in any case of the letters; a graph with any other boolean token is not
\* decoded, and the error of the boolean lookup is raised for such a token
\* only.
C10_BooleanLiterals ==
    /\ Decoded =>
          \A c \in Carriers(GraphXml, glist[1]) :
              ~BadBool(c[1]) /\ BagGet(c[2], "flag") = FlagOf(c[1])
    /\ err = "KeyError: convert_bool" =>
          \/ BadBool(GraphXml.data)
          \/ \E i \in DOMAIN GraphXml.nodes : BadBool(GraphXml.nodes[i].data)
          \/ \E i \in DOMAIN GraphXml.edges : BadBool(GraphXml.edges[i].data)

\* C10 happens: TRUE was decoded to true on a node and False to false on the
\* graph
C10_Witness ==
    /\ Decoded
    /\ \E i \in DOMAIN GraphXml.nodes[1].data :
          GraphXml.nodes[1].data[i].text = "TRUE"
    /\ BagGet(glist[1].nodes[1].data, "flag") = BoolV(TRUE)
    /\ \E i \in DOMAIN GraphXml.data : GraphXml.data[i].text = "False"
    /\ BagGet(glist[1].graph, "flag") = BoolV(FALSE)

(***************************************************************************)
(* attr_type on its own: a writer records the types of the values of the   *)
(* attribute w of nodes and edges, as add_attributes does, and is then     *)
(* asked for the type of one of the recorded values.                       *)
(***************************************************************************)
Scopes == {"node", "edge"}

InitAttrType ==
    /\ G = EmptyGraph(FALSE, FALSE)
    /\ W \in {WriterInit(kind, infer) :
                 kind \in {"xml", "lxml"}, infer \in BOOLEAN}
    /\ xml = EmptyDoc
    /\ tables = NoTables
    /\ reader = ReaderInit
    /\ glist = <<>>
    /\ pc = "observe"
    /\ err = ""
    /\ ret = NoCall

\* self.attribute_types[(make_str(k), scope)].add(type(v))
Observe ==
    /\ pc = "observe"
    /\ \E v \in Values, scope \in Scopes :
           W' = observe(W, make_str(StrV("w")), scope, type(v))
    /\ UNCHANGED <<G, xml, tables, reader, glist, pc, err, ret>>

\* self.attr_type(k, scope, v), for a value whose type was recorded
AttrType ==
    /\ pc = "observe"
    /\ \E v \in Values, scope \in Scopes :
           /\ type(v) \in observed(W, "w", scope)
           /\ ret' = [name |-> "w", scope |-> scope, value |-> v,
                      result |-> attr_type(W, "w", scope, v)]
    /\ pc' = "called"
    /\ UNCHANGED <<G, W, xml, tables, reader, glist, err>>

NextAttrType == Observe \/ AttrType

SpecAttrType == InitAttrType /\ [][NextAttrType]_vars

\* the types recorded for the pair of the last call of attr_type
Seen == observed(W, ret.name, ret.scope)

\* C6: with inference enabled and more than one type recorded for the pair,
\* attr_type returns str (declared string) if a str was recorded, else float
\* (declared double) if a float was recorded, else int (declared long, the
\* wider integer type) if an int was recorded, and bool only if nothing but
\* bool was recorded; with inference disabled, or exactly one type recorded,
\* it returns the type of the value itself.
C6_Precedence ==
    pc = "called" =>
        /\ (W.infer_numeric_types /\ Cardinality(Seen) > 1) =>
               /\ "str" \in Seen =>
                      ret.result = "str" /\ xml_type(ret.result) = "string"
               /\ ("str" \notin Seen /\ "float" \in Seen) =>
                      ret.result = "float" /\ xml_type(ret.result) = "double"
               /\ ("str" \notin Seen /\ "float" \notin Seen
                      /\ "int" \in Seen) =>
                      ret.result = "int" /\ xml_type(ret.result) = "long"
               /\ ret.result = "bool" => Seen = {"bool"}
        /\ (~W.infer_numeric_types \/ Cardinality(Seen) = 1) =>
               ret.result = type(ret.value)

\* attr_type was asked, with inference enabled, for a float of a pair for
\* which bool, int, float and str were all recorded, and returned str
C6_Witness ==
    /\ pc = "called"
    /\ W.infer_numeric_types
    /\ {"bool", "int", "float", "str"} \subseteq Seen
    /\ ret.value = FloatV(25)
    /\ ret.result = "str"

(***************************************************************************)
(* Properties of the writers, and of the reader on what they wrote.  G is  *)
(* the graph after add_graph_element, that is without its id.              *)
(***************************************************************************)
\* the attribute bags of a graph, each with its scope
Bags(H) ==
    {<<"graph", H.graph>>}
    \cup {<<"node", H.nodes[i].data>> : i \in DOMAIN H.nodes}
    \cup {<<"edge", H.edges[i].data>> : i \in DOMAIN H.edges}

\* every value of the bag has a type of the type table
SupportedBag(b) == \A i \in DOMAIN b : type(b[i].v) \in xml_type_keys
Supported(H) == \A c \in Bags(H) : SupportedBag(c[2])
SupportedAll(H) ==
    Supported(H) /\ SupportedBag(H.node_default) /\ SupportedBag(H.edge_default)

\* the (name, scope) pairs of the bags, and the values of a pair
BagPairs(H) ==
    UNION {{<<c[2][i].k, c[1]>> : i \in DOMAIN c[2]} : c \in Bags(H)}
ValuesOf(H, name, scope) ==
    {BagGet(c[2], name) : c \in {x \in Bags(H) : x[1] = scope}} \ {NoneV}

\* the <data> elements of the first graph of a document, each with its scope
DataOf(doc) ==
    IF doc.graphs = <<>> THEN {}
    ELSE
    LET g == doc.graphs[1]
    IN  {<<"graph", g.data[i]>> : i \in DOMAIN g.data}
        \cup UNION {{<<"node", g.nodes[j].data[i]>> :
                        i \in DOMAIN g.nodes[j].data} : j \in DOMAIN g.nodes}
        \cup UNION {{<<"edge", g.edges[j].data[i]>> :
                        i \in DOMAIN g.edges[j].data} : j \in DOMAIN g.edges}

\* the <key> elements of a document for a pair, and the one with an id
KeysFor(doc, name, scope) ==
    {i \in DOMAIN doc.keys :
        doc.keys[i].name = name /\ doc.keys[i].for = scope}
KeyWithId(doc, id) == doc.keys[CHOOSE i \in DOMAIN doc.keys : doc.keys[i].id = id]

\* the generalized type of a set of supported types
Generalized(ts) ==
    IF "str" \in ts THEN "str"
    ELSE IF "float" \in ts THEN "float"
    ELSE IF "int" \in ts THEN "int"
    ELSE "bool"

\* the text parses under the declared GraphML type, as the reader parses it
ParsesBack(attr, text) ==
    ~IsErr(IF python_type(attr) = "bool" THEN decode_bool(text)
           ELSE CallType(python_type(attr), text))

\* two values are the same up to the declared type: numbers by their value,
\* a value declared string by its text
SameValue(v, w) == PyEq(v, w) \/ (w.t = "str" /\ w.s = make_str(v))
SameBag(b, c) ==
    /\ {b[i].k : i \in DOMAIN b} = {c[i].k : i \in DOMAIN c}
    /\ \A i \in DOMAIN b : SameValue(b[i].v, BagGet(c, b[i].k))

\* the same kind of graph, the same nodes, the same edges with the same keys
\* and the same attribute values up to the declared type
StructurallyEqual(H, K) ==
    /\ H.directed = K.directed
    /\ H.multigraph = K.multigraph
    /\ SameBag(H.graph, K.graph)
    /\ {H.nodes[i].id : i \in DOMAIN H.nodes}
           = {K.nodes[i].id : i \in DOMAIN K.nodes}
    /\ \A i \in DOMAIN H.nodes : \A j \in DOMAIN K.nodes :
           H.nodes[i].id = K.nodes[j].id =>
               SameBag(H.nodes[i].data, K.nodes[j].data)
    /\ Len(H.edges) = Len(K.edges)
    /\ \A i \in DOMAIN H.edges : \E j \in DOMAIN K.edges :
           /\ Joins(H, K.edges[j], H.edges[i].u, H.edges[i].v)
           /\ PyEq(H.edges[i].key, K.edges[j].key)
           /\ SameBag(H.edges[i].data, K.edges[j].data)

\* the run has written G and has read the document again, to the end
ReadAgain == xml # EmptyDoc /\ pc \in {"failed", "returned"}

\* C1: for every graph whose attribute values all have a type of the table,
\* decoding the document of encoding it yields a graph structurally equal to
\* it: the same nodes, the same edges with the same keys, the same attribute
\* values up to the declared type.
C1_RoundTrip ==
    (ReadAgain /\ SupportedAll(G)) =>
        pc = "returned" /\ StructurallyEqual(G, glist[1])

\* C5: after an encode with inference enabled every (name, scope) pair of
\* the graph has exactly one <key>, declared with the generalized type of
\* the values of the pair, and the text of every <data> element parses back
\* under the type its key declares.
C5_Generalization ==
    (pc = "written" /\ W.infer_numeric_types /\ SupportedAll(G)) =>
        /\ \A p \in BagPairs(G) :
              /\ Cardinality(KeysFor(Document, p[1], p[2])) = 1
              /\ \A i \in KeysFor(Document, p[1], p[2]) :
                    Document.keys[i].type =
                        xml_type(Generalized(
                            {type(v) : v \in ValuesOf(G, p[1], p[2])}))
        /\ \A d \in DataOf(ParseDoc(Document)) :
              d[2].text # NoneStr =>
                  ParsesBack(KeyWithId(Document, d[2].key).type, d[2].text)

\* C7: after an encode, by either writer, the (attr.name, for) pairs of the
\* <key> elements are exactly the (name, scope) pairs of the attribute bags
\* of the graph, of its nodes and of its edges.
C7_KeyCoverage ==
    pc = "written" =>
        {<<Document.keys[i].name, Document.keys[i].for>> :
            i \in DOMAIN Document.keys} = BagPairs(G)

\* C8: the encode of a graph with an attribute value whose type is not in
\* the type table fails, with either writer and with inference enabled or
\* disabled, and no <data> element is produced for such a value.
C8_UnsupportedFails ==
    ~Supported(G) =>
        /\ pc \in {"write", "failed"}
        /\ pc = "failed" =>
              \A d \in DataOf(Document) : d[2].text # make_str(ListV)

(***************************************************************************)
(* The writers and the graph they are handed.                              *)
(***************************************************************************)
\* the last <graph> element of a document
LastGraph(doc) == doc.graphs[Len(doc.graphs)]

\* the id a <graph> element gets from the graph attributes b
GraphId(b) ==
    IF \E i \in DOMAIN b : b[i].k = "id"
    THEN (CHOOSE x \in {b[i] : i \in DOMAIN b} : x.k = "id").v.s
    ELSE NoneStr

\* a step of either writer's add_graph_element
AddGraphElement == add_graph_element \/ add_graph_element_lxml

\* C11: add_graph_element of either writer removes the entry id from the
\* graph attributes of the graph it is handed and writes its value as the id
\* of the <graph> element; the nodes, the edges, their attributes and every
\* other graph attribute, node_default and edge_default included, stay as
\* they were.
C11_IdPoppedRestKept ==
    [][AddGraphElement =>
          /\ G' = [G EXCEPT !.graph = SelectSeq(@, LAMBDA x : x.k # "id")]
          /\ pc' = "written" => LastGraph(Document').id = GraphId(G.graph)]_vars

\* a graph that had the id g and another graph attribute was written
C11_Witness ==
    /\ pc = "written"
    /\ LastGraph(Document).id = "g"
    /\ G.graph # <<>>
    /\ \A i \in DOMAIN G.graph : G.graph[i].k # "id"
    /\ G.edges # <<>>

(***************************************************************************)
(* Defaults of keys.                                                       *)
(***************************************************************************)
\* the <key> elements of the document that have a <default> child and the
\* scope s
Defaulted(s) ==
    {k \in {xml.keys[i] : i \in DOMAIN xml.keys} :
        k.default # <<>> /\ k.for = s}

\* the value v is the default text converted to the attr.type of the key:
\* the number a long or double text denotes, the text itself for a string,
\* and a boolean for a boolean
OfKeyType(v, k) ==
    CASE k.type = "boolean" -> v.t = "bool"
      [] k.type \in {"long", "int"} -> v = PyInt(k.default[1])
      [] k.type = "double" -> v = PyFloat(k.default[1])
      [] OTHER -> v = StrV(k.default[1])

\* the bag b holds the converted defaults of the keys of scope s, and
\* nothing else
HoldsDefaults(b, s) ==
    /\ \A k \in Defaulted(s) : BagHas(b, k.name) /\ OfKeyType(BagGet(b, k.name), k)
    /\ \A i \in DOMAIN b : \E k \in Defaulted(s) : k.name = b[i].k

\* the attribute names the <data> children ds give an element
OwnNames(ds) ==
    {k.name : k \in {x \in {xml.keys[i] : i \in DOMAIN xml.keys} :
                        \E j \in DOMAIN ds : ds[j].key = x.id}}

C13_KeysBeforeData ==
    W.kind = "lxml" =>
        \A i \in DOMAIN W.log :
            W.log[i][1] = "data" =>
                \E j \in 1..(i - 1) : W.log[j] = <<"key", W.log[i][2]>>

\* C14: while one document is encoded, with infer_numeric_types on or off,
\* the key table holds at most one entry, and the document at most one <key>
\* declaration, for each pair of attribute name and scope.
C14_OneKeyPerPair ==
    /\ \A i, j \in DOMAIN W.keys :
          W.keys[i].k[1] = W.keys[j].k[1] /\ W.keys[i].k[3] = W.keys[j].k[3]
              => i = j
    /\ \A i, j \in DOMAIN W.xml.keys :
          W.xml.keys[i].name = W.xml.keys[j].name
          /\ W.xml.keys[i].for = W.xml.keys[j].for
              => i = j

(***************************************************************************)
(* get_key called any number of times on one writer: the attribute w, as   *)
(* long or string, on nodes or edges, with or without a default.           *)
(***************************************************************************)
KeyTypes == {"long", "string"}
KeyDefaultValues == {NoneV, IntV(1)}

InitGetKey ==
    /\ G = EmptyGraph(FALSE, FALSE)
    /\ W \in {WriterInit(kind, FALSE) : kind \in {"xml", "lxml"}}
    /\ xml = EmptyDoc
    /\ tables = NoTables
    /\ reader = ReaderInit
    /\ glist = <<>>
    /\ pc = "get_key"
    /\ err = ""
    /\ ret = NoCall

\* self.get_key(name, attr_type, scope, default)
GetKey ==
    /\ pc = "get_key"
    /\ \E t \in KeyTypes, scope \in Scopes, default \in KeyDefaultValues :
           \E r \in {get_key(W, "w", t, scope, default)} :
               /\ W' = r.self
               /\ ret' = [name |-> "w", scope |-> scope, value |-> default,
                          result |-> r.id, type |-> t]
    /\ UNCHANGED <<G, xml, tables, reader, glist, pc, err>>

NextGetKey == GetKey

SpecGetKey == InitGetKey /\ [][NextGetKey]_vars

\* the registry has an entry for the key of the call that returned
Registered(keys, call) ==
    \E i \in DOMAIN keys : keys[i].k = <<call.name, call.type, call.scope>>

\* the <key> declarations of the document doc with the id
Declarations(doc, id) == {j \in DOMAIN doc.keys : doc.keys[j].id = id}

\* C15: through any sequence of get_key calls on one writer an entry keeps
\* its id, two entries never have the same id (the same name on nodes and on
\* edges has two), the ids are d0, d1, ... in the order the entries were
\* first asked for, every entry has one <key> declaration, and a call for an
\* entry that exists returns its id and declares nothing.
C15_KeyIds ==
    [][GetKey =>
          /\ \A i \in DOMAIN W.keys : W'.keys[i] = W.keys[i]
          /\ \A i, j \in DOMAIN W'.keys :
                W'.keys[i].v = W'.keys[j].v => i = j
          /\ \A i \in DOMAIN W'.keys :
                /\ W'.keys[i].v = "d" \o IntText(i - 1)
                /\ Cardinality(Declarations(W'.xml, W'.keys[i].v)) = 1
          /\ \E i \in DOMAIN W'.keys :
                /\ W'.keys[i].k = <<ret'.name, ret'.type, ret'.scope>>
                /\ W'.keys[i].v = ret'.result
          /\ IF Registered(W.keys, ret')
             THEN W' = W
             ELSE /\ Len(W'.keys) = Len(W.keys) + 1
                  /\ Len(W'.xml.keys) = Len(W.xml.keys) + 1]_vars

\* C15 happens: w is registered as long on nodes and on edges under two ids,
\* and the last call asked for an entry a second time
C15_Witness ==
    /\ pc = "get_key"
    /\ Len(W.keys) >= 3
    /\ BagHas(W.keys, <<"w", "long", "node">>)
    /\ BagHas(W.keys, <<"w", "long", "edge">>)
    /\ BagGet(W.keys, <<"w", "long", "node">>)
           # BagGet(W.keys, <<"w", "long", "edge">>)
    /\ ret.result = "d0"
    /\ Len(W.xml.keys) = Len(W.keys)

(***************************************************************************)
(* The two writers on the same graph.                                      *)
(***************************************************************************)
\* the key table of a writer: for every entry its name, type and scope, its
\* id and its default
KeyEntries(self) ==
    {<<self.keys[i].k, self.keys[i].v,
       {k.default : k \in {x \in {self.xml.keys[j] : j \in DOMAIN self.xml.keys} :
                              x.id = self.keys[i].v}}>> :
        i \in DOMAIN self.keys}

\* a fresh writer of the other class, with the same infer_numeric_types,
\* after add_graph_element of the graph H
OtherWriter(self, H) ==
    IF self.kind = "xml"
    THEN lxml_add_graph_element(WriterInit("lxml", self.infer_numeric_types), H)
    ELSE writer_add_graph_element(WriterInit("xml", self.infer_numeric_types), H)

\* C16: for the same graph and the same infer_numeric_types, GraphMLWriter
\* and GraphMLWriterLxml end with the same key table: the same entries
\* (name, type, scope), each with the same id and the same default.
C16_SameKeyTables ==
    pc = "written" /\ Len(Document.graphs) = 1 /\ OtherWriter(W, G).err = ""
        => KeyEntries(W) = KeyEntries(OtherWriter(W, G).self)

(***************************************************************************)
(* Documents with several graphs.                                          *)
(***************************************************************************)
\* the edge of the decoded graph H has the attribute id only if an edge
\* element of g between its ends carries that id
OwnIds(g, H) ==
    \A i \in DOMAIN H.edges :
        BagHas(H.edges[i].data, "id") =>
            \E j \in DOMAIN g.edges :
                /\ Joins(H, H.edges[i], g.edges[j].source, g.edges[j].target)
                /\ StrV(g.edges[j].id) = BagGet(H.edges[i].data, "id")

\* C17: every graph one reader yields for a document is a simple graph when
\* its own <graph> element has no two edge elements on the same endpoint
\* pair, whatever the graphs before it had, and its edges have the attribute
\* id only when their own elements carried an id.
C17_PerGraph ==
    \A i \in DOMAIN glist :
        /\ ~HasParallel(xml.graphs[i]) => ~glist[i].multigraph
        /\ OwnIds(xml.graphs[i], glist[i])

(***************************************************************************)
(* add_graphs: one writer is handed up to MaxGraphs graphs, one after the  *)
(* other.                                                                  *)
(***************************************************************************)
MaxGraphs == 2

\* the graphs that may follow the first graph of the list: the nodes a and
\* b without attributes, or with the attribute w = 2.5 on a
LaterGraphs ==
    {GraphOn(FALSE, FALSE, <<>>, <<>>),
     GraphOn(FALSE, FALSE, <<>>, << <<<<"node", 1>>, "w", FloatV(25)>> >>)}

\* "for G in graph_list": the next graph of the list
NextGraph ==
    /\ pc = "written"
    /\ Len(Document.graphs) < MaxGraphs
    /\ G' \in LaterGraphs
    /\ pc' = "write"
    /\ UNCHANGED <<W, xml, tables, reader, glist, err, ret>>

NextAddGraphs == add_graph_element \/ add_graph_element_lxml \/ NextGraph

SpecAddGraphs == Init /\ [][NextAddGraphs]_vars

\* the attribute name of the key a <data> element refers to
NameOfKey(doc, id) ==
    (CHOOSE k \in {doc.keys[i] : i \in DOMAIN doc.keys} : k.id = id).name

\* the <data> children ds are one per attribute of the bag b
OnePerAttribute(doc, ds, b) ==
    /\ Len(ds) = Len(b)
    /\ \A i \in DOMAIN b :
          Cardinality({j \in DOMAIN ds : NameOfKey(doc, ds[j].key) = b[i].k})
              = 1

\* the <graph> element g of the document encodes the graph H
Encodes(doc, g, H) ==
    /\ OnePerAttribute(doc, g.data, H.graph)
    /\ Len(g.nodes) = Len(H.nodes)
    /\ \A i \in DOMAIN g.nodes :
          OnePerAttribute(doc, g.nodes[i].data, H.nodes[i].data)
    /\ Len(g.edges) = Len(H.edges)
    /\ \A i \in DOMAIN g.edges :
          OnePerAttribute(doc, g.edges[i].data, H.edges[i].data)

\* C18: every add_graph_element of GraphMLWriter that succeeds, the first
\* and the later ones, appends a <graph> element whose graph, node and edge
\* elements have exactly one <data> child per attribute of what they
\* encode, and leaves the graph elements added before as they were.
C18_LaterGraphsKeepEarlier ==
    [][add_graph_element /\ pc' = "written" =>
          /\ Len(W'.xml.graphs) = Len(W.xml.graphs) + 1
          /\ Encodes(W'.xml, LastGraph(W'.xml), G')
          /\ \A i \in DOMAIN W.xml.graphs :
                W'.xml.graphs[i] = W.xml.graphs[i]]_vars

\* C19: the default of a boolean key is stored in node_default or
\* edge_default by the boolean rule of <data> elements: the texts false and
\* 0, in any case of the letters, give false, the texts true and 1 give true.
C19_BooleanDefaults ==
    Decoded =>
        \A s \in {"node", "edge"} :
            \A k \in Defaulted(s) :
                k.type = "boolean"
                /\ k.default[1] \in TrueTokens \cup FalseTokens
                    => BagGet(IF s = "node" THEN glist[1].node_default
                              ELSE glist[1].edge_default, k.name)
                           = BoolV(k.default[1] \in TrueTokens)

====
